---------------------------- MODULE Spec2Model ----------------------------
(***************************************************************************)
(* The PDF library manager: the Library Controller of src/App.tsx (its     *)
(* React state and its asynchronous handlers), the Document Factory of     *)
(* src/services/pdfFactory.ts, and the Document Store it persists to.      *)
(* The Store module (./services/storage.ts) is imported by App.tsx but its *)
(* source is not available; it is modelled from sections 4.1, 5 and 7 of   *)
(* the specification.                                                      *)
(***************************************************************************)
EXTENDS Naturals, Sequences, FiniteSets, TLC

(***************************************************************************)
(* Bounds of the model.                                                    *)
(***************************************************************************)
\* User gestures (clicks, inputs, file choices) in one session.
MaxEvents == 4

(***************************************************************************)
(* Values.                                                                 *)
(***************************************************************************)
\* JavaScript's undefined / null, for the optional fields and form fields.
Undefined == "undefined"

\* Text is a sequence of characters.
Whitespace == {" "}
\* Characters the text-rendering engine cannot encode (spec 4.2).
UnsupportedChars == {"~"}

PdfExt == <<".", "p", "d", "f">>
PdfMime == "application/pdf"

\* The fields of a PDFDocument record.
DocFields ==
    {"id", "name", "description", "size", "type", "data", "coverImage", "addedAt"}

\* Files the user can pick: File.size is the byte length of the blob and
\* File.type is whatever the platform reports for it.
Files ==
    { [name |-> <<"a">> \o PdfExt, size |-> 1, type |-> PdfMime, bytes |-> <<7>>],
      [name |-> <<"b">>, size |-> 2, type |-> "", bytes |-> <<7, 8>>] }

\* Cover images, as data URLs.
Covers == {"img"}

\* What the user can type in the text inputs.
UploadNameInputs == {<<"n">>}
TitleInputs == {<<" ">>, <<"T">>}
ContentInputs == {<<"c">>, <<"~">>}

\* Messages of alert().
MsgUploadError == "Erro ao salvar arquivo."
MsgCreateMissing == "Por favor, adicione um título e conteúdo."
MsgCreateOk == "PDF criado com sucesso!"
MsgCreateError ==
    "Erro ao criar PDF. Verifique se o texto não contém caracteres especiais não suportados."
MsgLoadError == "Failed to load documents"
MsgPopupBlocked == "Por favor, permita popups para este site para visualizar o PDF."

\* Failures of the Store (spec 7) and of the Factory (spec 4.2).
StorageUnavailable == "StorageUnavailable"
StorageQuotaExceeded == "StorageQuotaExceeded"
UnsupportedContent == "UnsupportedContent"
NotFound == [error |-> "NotFound"]

(***************************************************************************)
(* Pure functions of the controller and the factory.                       *)
(***************************************************************************)
RECURSIVE trimStart(_)
trimStart(s) ==
    IF s # <<>> /\ Head(s) \in Whitespace THEN trimStart(Tail(s)) ELSE s

RECURSIVE trimEnd(_)
trimEnd(s) ==
    IF s # <<>> /\ s[Len(s)] \in Whitespace
    THEN trimEnd(SubSeq(s, 1, Len(s) - 1))
    ELSE s

\* String.prototype.trim
trim(s) == trimEnd(trimStart(s))

\* name.replace('.pdf', ''): removes the first occurrence of ".pdf".
replacePdf(s) ==
    LET hits == {i \in 1..Len(s) :
                    i + 3 <= Len(s) /\ SubSeq(s, i, i + 3) = PdfExt}
    IN  IF hits = {} THEN s
        ELSE LET i == CHOOSE j \in hits : \A k \in hits : j <= k
             IN  SubSeq(s, 1, i - 1) \o SubSeq(s, i + 4, Len(s))

\* The bytes of one character in the generated document.
charCode(c) == IF c \in Whitespace THEN 32 ELSE 65

encodeText(s) == [i \in 1..Len(s) |-> charCode(s[i])]

hasUnsupported(s) == \E i \in 1..Len(s) : s[i] \in UnsupportedChars

\* The PDF file signature "%PDF".
PdfSignature == <<37, 80, 68, 70>>

\* PDFFactory.createPDF: the byte buffer of a document with a title and a
\* body, or the failure UnsupportedContent.
createPDF(title, content) ==
    IF hasUnsupported(title) \/ hasUnsupported(content)
    THEN [ok |-> FALSE, error |-> UnsupportedContent, buffer |-> <<>>]
    ELSE [ok |-> TRUE, error |-> Undefined,
          buffer |-> PdfSignature \o encodeText(title) \o encodeText(content)]

byteLength(buffer) == Len(buffer)

\* a.sort((a, b) => b.addedAt - a.addedAt): Array.prototype.sort is stable.
RECURSIVE insertByAddedAtDesc(_, _)
insertByAddedAtDesc(d, sorted) ==
    IF sorted = <<>> THEN <<d>>
    ELSE IF Head(sorted).addedAt >= d.addedAt
         THEN <<Head(sorted)>> \o insertByAddedAtDesc(d, Tail(sorted))
         ELSE <<d>> \o sorted

RECURSIVE sortFrom(_, _)
sortFrom(docs, acc) ==
    IF docs = <<>> THEN acc
    ELSE sortFrom(Tail(docs), insertByAddedAtDesc(Head(docs), acc))

\* (No sort: the view in the order of list().)
unsorted(docs) == docs

sortByAddedAtDesc(docs) == sortFrom(docs, <<>>)

(***************************************************************************)
(* The Document Store: a keyed collection of entries, one per id.          *)
(***************************************************************************)
\* An entry decodes to a document when it has every field of the record.
WellFormed(e) == DOMAIN e = DocFields

StoreKeys(s) == {e.id : e \in s}

RECURSIVE inKeyOrder(_)
inKeyOrder(s) ==
    IF s = {} THEN <<>>
    ELSE LET e == CHOOSE x \in s : \A y \in s : x.id <= y.id
         IN  <<e>> \o inKeyOrder(s \ {e})

\* list(): every record that decodes, in store (key) order; a corrupt entry
\* is skipped.
StoreList(s) == inKeyOrder({e \in s : WellFormed(e)})

\* get(id): the record, or NotFound.
StoreHas(s, id) == \E e \in s : e.id = id /\ WellFormed(e)
StoreGet(s, id) ==
    IF StoreHas(s, id)
    THEN CHOOSE e \in s : e.id = id /\ WellFormed(e)
    ELSE NotFound

\* (A put that keeps the cover apart from the record and loses it.)
StorePutLosesCover(s, d) ==
    {e \in s : e.id # d.id} \cup {[d EXCEPT !.coverImage = Undefined]}

\* A put with merge semantics: an absent cover in the new document keeps the
\* cover of the record it replaces.
StorePutMerges(s, d) ==
    {e \in s : e.id # d.id} \cup
        { IF d.coverImage = Undefined
             /\ \E e \in s : e.id = d.id /\ WellFormed(e)
          THEN [d EXCEPT !.coverImage =
                   (CHOOSE e \in s : e.id = d.id).coverImage]
          ELSE d }

\* put(document): inserts, or fully replaces the entry with the same id.
StorePut(s, d) == {e \in s : e.id # d.id} \cup {d}

\* delete(id): removes the entry if present.
StoreDelete(s, id) == {e \in s : e.id # id}

(***************************************************************************)
(* State.                                                                  *)
(***************************************************************************)
VARIABLES
    store,            \* the Store's collection of entries
    documents,        \* the controller's cached view (useState documents)
    viewMode,         \* "library" or "create"
    creatorTitle, creatorContent, creatorCover,
    showUploadModal, uploadFile, uploadCover, uploadName, isProcessing,
    tasks,            \* the invocations of asynchronous handlers in flight
    coverReads,       \* the FileReaders of processCoverImage still reading
    nEvents,          \* user gestures handled so far
    usedIds,          \* the ids crypto.randomUUID() has produced so far
    clock,            \* the wall clock read by Date.now()
    alerts,           \* the messages shown by alert(), in order
    console,          \* the payloads of console.error(), in order
    blobUrls,         \* the object URLs created and not yet revoked
    timers            \* the object URLs whose revoke timer is pending

creatorForm == <<creatorTitle, creatorContent, creatorCover>>
uploadForm == <<showUploadModal, uploadFile, uploadCover, uploadName>>
platform == <<usedIds, clock>>
handles == <<blobUrls, timers>>
vars == <<store, documents, viewMode, creatorForm, uploadForm, isProcessing,
          tasks, coverReads, nEvents, platform, alerts, console, handles>>

\* uploadFile === null.
NoFile == [name |-> <<>>, size |-> 0, type |-> "", bytes |-> <<>>]

\* The ids crypto.randomUUID() can produce; the store keeps entries in key order.
UUIDs == 1..5

\* Records persisted by earlier sessions.
OldDoc(id, at) ==
    [id |-> id, name |-> <<"o">>, description |-> Undefined, size |-> 1,
     type |-> PdfMime, data |-> <<7>>, coverImage |-> Undefined, addedAt |-> at]

\* A partially written entry: it has an id and nothing that decodes.
CorruptEntry(id) == [id |-> id, name |-> <<"x">>]

InitialStores ==
    { {},
      {OldDoc(2, 1), OldDoc(4, 2)},
      {OldDoc(2, 1), CorruptEntry(3), OldDoc(4, 2)} }

InitialClock(s) == IF s = {} THEN 0 ELSE 2

\* App mounts: every useState at its initial value, and the mount effect has
\* called loadDocuments(), whose getDocuments() is in flight.
Init ==
    /\ store \in InitialStores
    /\ documents = <<>>
    /\ viewMode = "library"
    /\ creatorTitle = <<>> /\ creatorContent = <<>> /\ creatorCover = Undefined
    /\ showUploadModal = FALSE
    /\ uploadFile = NoFile /\ uploadCover = Undefined /\ uploadName = <<>>
    /\ isProcessing = FALSE
    /\ tasks = {[n |-> 0, op |-> "mount", pc |-> "list"]}
    /\ coverReads = {}
    /\ nEvents = 0
    /\ usedIds = StoreKeys(store)
    /\ clock = InitialClock(store)
    /\ alerts = <<>>
    /\ console = <<>>
    /\ blobUrls = {}
    /\ timers = {}

(***************************************************************************)
(* Synchronous handlers of the presentation layer.                         *)
(***************************************************************************)
\* One more user gesture is handled.
UserEvent == nEvents < MaxEvents /\ nEvents' = nEvents + 1

\* The upload modal is a layer over the whole page: while it shows, a mouse
\* click reaches only the modal's own controls, so the cards and the file
\* pickers (hidden inputs behind a label) of the page are out of reach.  The
\* buttons and text fields of the page stay in the tab order and are reached
\* with the keyboard.
OpenUploadModal ==
    /\ UserEvent
    /\ showUploadModal' = TRUE
    /\ UNCHANGED <<store, documents, viewMode, creatorForm, uploadFile,
                   uploadCover, uploadName, isProcessing, tasks, coverReads,
                   platform, alerts, console, handles>>

SetViewMode(m) ==
    /\ UserEvent
    /\ viewMode # m
    /\ viewMode' = m
    /\ UNCHANGED <<store, documents, creatorForm, uploadForm, isProcessing,
                   tasks, coverReads, platform, alerts, console, handles>>

SetCreatorTitle(v) ==
    /\ UserEvent
    /\ viewMode = "create"
    /\ creatorTitle' = v
    /\ UNCHANGED <<store, documents, viewMode, creatorContent, creatorCover,
                   uploadForm, isProcessing, tasks, coverReads, platform,
                   alerts, console, handles>>

SetCreatorContent(v) ==
    /\ UserEvent
    /\ viewMode = "create"
    /\ creatorContent' = v
    /\ UNCHANGED <<store, documents, viewMode, creatorTitle, creatorCover,
                   uploadForm, isProcessing, tasks, coverReads, platform,
                   alerts, console, handles>>

handleFileSelect(f) ==
    /\ UserEvent
    /\ showUploadModal
    /\ uploadFile' = f
    /\ uploadName' = IF uploadName = <<>> THEN replacePdf(f.name) ELSE uploadName
    /\ UNCHANGED <<store, documents, viewMode, creatorForm, showUploadModal,
                   uploadCover, isProcessing, tasks, coverReads, platform,
                   alerts, console, handles>>

SetUploadName(v) ==
    /\ UserEvent
    /\ showUploadModal
    /\ uploadName' = v
    /\ UNCHANGED <<store, documents, viewMode, creatorForm, showUploadModal,
                   uploadFile, uploadCover, isProcessing, tasks, coverReads,
                   platform, alerts, console, handles>>

\* processCoverImage: starts a FileReader of its own on the chosen image; n
\* tells the readers apart.
processCoverImage(target, image) ==
    /\ UserEvent
    /\ coverReads' = coverReads \cup
          {[n |-> nEvents + 1, target |-> target, image |-> image]}
    /\ UNCHANGED <<store, documents, viewMode, creatorForm, uploadForm,
                   isProcessing, tasks, platform, alerts, console, handles>>

handleUploadCoverSelect(image) ==
    /\ showUploadModal
    /\ processCoverImage("upload", image)

handleCreatorCoverSelect(image) ==
    /\ ~showUploadModal /\ viewMode = "create"
    /\ processCoverImage("creator", image)

\* reader.result at loadend: the data URL, or null when the read failed.
ReadResults(r) == {r.image, Undefined}

\* reader.onloadend: the callback receives reader.result.
CoverLoaded(r, result) ==
    /\ r \in coverReads
    /\ result \in ReadResults(r)
    /\ coverReads' = coverReads \ {r}
    /\ IF r.target = "upload"
       THEN uploadCover' = result /\ UNCHANGED creatorCover
       ELSE creatorCover' = result /\ UNCHANGED uploadCover
    /\ UNCHANGED <<store, documents, viewMode, creatorTitle, creatorContent,
                   showUploadModal, uploadFile, uploadName, isProcessing, tasks,
                   nEvents, platform, alerts, console, handles>>

\* The assignments of resetUploadForm.
resetUploadForm ==
    /\ uploadFile' = NoFile
    /\ uploadCover' = Undefined
    /\ uploadName' = <<>>
    /\ showUploadModal' = FALSE

\* The modal's close button.
CloseUploadModal ==
    /\ UserEvent
    /\ showUploadModal
    /\ resetUploadForm
    /\ UNCHANGED <<store, documents, viewMode, creatorForm, isProcessing, tasks,
                   coverReads, platform, alerts, console, handles>>

(***************************************************************************)
(* Platform calls.                                                         *)
(***************************************************************************)
\* (An id generator that can repeat an id.)
RepeatableIds == UUIDs

\* crypto.randomUUID(): an id never produced before.
FreshIds == UUIDs \ usedIds

\* Date.now(): the clock may have advanced since it was last read.
Nows == {clock, clock + 1}

(***************************************************************************)
(* confirmUpload.                                                          *)
(***************************************************************************)
\* The record confirmUpload builds from the file, its buffer and the form.
uploadDoc(file, arrayBuffer, name, cover, id, now) ==
    [id |-> id,
     name |-> IF name # <<>> THEN name ELSE replacePdf(file.name),
     description |-> Undefined,
     size |-> file.size,
     type |-> file.type,
     data |-> arrayBuffer,
     coverImage |-> cover,
     addedAt |-> now]

\* confirmUpload without a file returns at once.
ConfirmUploadNoFile ==
    /\ showUploadModal
    /\ uploadFile = NoFile
    /\ UNCHANGED vars

\* The confirm button (enabled with a file and while not processing):
\* setIsProcessing(true), then await uploadFile.arrayBuffer().
ConfirmUpload ==
    /\ UserEvent
    /\ showUploadModal
    /\ uploadFile # NoFile
    /\ ~isProcessing
    /\ isProcessing' = TRUE
    /\ tasks' = tasks \cup {[n |-> nEvents + 1, op |-> "upload", pc |-> "read",
                             file |-> uploadFile, name |-> uploadName,
                             cover |-> uploadCover]}
    /\ UNCHANGED <<store, documents, viewMode, creatorForm, uploadForm,
                   coverReads, platform, alerts, console, handles>>

\* arrayBuffer() resolved: newDoc is built and Storage.saveDocument(newDoc)
\* is awaited.
UploadRead(t) ==
    /\ t.pc = "read"
    /\ \E id \in FreshIds, now \in Nows :
          /\ usedIds' = usedIds \cup {id}
          /\ clock' = now
          /\ tasks' = (tasks \ {t}) \cup
                {[n |-> t.n, op |-> t.op, pc |-> "save",
                  doc |-> uploadDoc(t.file, t.file.bytes, t.name, t.cover,
                                    id, now)]}
    /\ UNCHANGED <<store, documents, viewMode, creatorForm, uploadForm,
                   isProcessing, coverReads, nEvents, alerts, console,
                   handles>>

\* (A catch block that swallows the error without telling the user.)
uploadFailedSilently ==
    /\ isProcessing' = FALSE
    /\ UNCHANGED <<store, documents, viewMode, creatorForm, uploadForm,
                   coverReads, nEvents, platform, alerts, console, handles>>

\* (A catch block that also resets the upload form.)
uploadFailedResetsForm ==
    /\ alerts' = Append(alerts, MsgUploadError)
    /\ isProcessing' = FALSE
    /\ resetUploadForm
    /\ UNCHANGED <<store, documents, viewMode, creatorForm, coverReads,
                   nEvents, platform, console, handles>>

\* The catch and finally blocks of confirmUpload.
uploadFailed ==
    /\ alerts' = Append(alerts, MsgUploadError)
    /\ isProcessing' = FALSE
    /\ UNCHANGED <<store, documents, viewMode, creatorForm, uploadForm,
                   coverReads, nEvents, platform, console, handles>>

\* arrayBuffer() rejected (the file can no longer be read).
UploadReadFail(t) ==
    /\ t.pc = "read"
    /\ tasks' = tasks \ {t}
    /\ uploadFailed

(***************************************************************************)
(* handleCreatePDF.                                                        *)
(***************************************************************************)
\* (A record whose size is the length of the title, not of the buffer.)
createdDocTitleSize(pdfBuffer, title, cover, id, now) ==
    [id |-> id,
     name |-> title,
     description |-> "Gerado internamente",
     size |-> Len(title),
     type |-> PdfMime,
     data |-> pdfBuffer,
     coverImage |-> cover,
     addedAt |-> now]

\* The record handleCreatePDF builds from the generated buffer and the form.
createdDoc(pdfBuffer, title, cover, id, now) ==
    [id |-> id,
     name |-> title,
     description |-> "Gerado internamente",
     size |-> byteLength(pdfBuffer),
     type |-> PdfMime,
     data |-> pdfBuffer,
     coverImage |-> cover,
     addedAt |-> now]

\* Title or content blank: an alert and nothing else.
CreateMissing ==
    /\ UserEvent
    /\ trim(creatorTitle) = <<>> \/ trim(creatorContent) = <<>>
    /\ alerts' = Append(alerts, MsgCreateMissing)
    /\ UNCHANGED <<store, documents, viewMode, creatorForm, uploadForm,
                   isProcessing, tasks, coverReads, platform, console,
                   handles>>

\* (A catch block that also clears the creator form.)
createFailedClearsForm(e) ==
    /\ console' = Append(console, e)
    /\ alerts' = Append(alerts, MsgCreateError)
    /\ creatorTitle' = <<>> /\ creatorContent' = <<>> /\ creatorCover' = Undefined
    /\ UNCHANGED <<store, documents, viewMode, uploadForm, isProcessing,
                   coverReads, platform, handles>>

\* The catch block of handleCreatePDF.
createFailed(e) ==
    /\ console' = Append(console, e)
    /\ alerts' = Append(alerts, MsgCreateError)
    /\ UNCHANGED <<store, documents, viewMode, creatorForm, uploadForm,
                   isProcessing, coverReads, platform, handles>>

\* createPDF threw inside the try block.
CreateFactoryFail ==
    /\ UserEvent
    /\ trim(creatorTitle) # <<>> /\ trim(creatorContent) # <<>>
    /\ ~createPDF(creatorTitle, creatorContent).ok
    /\ createFailed(createPDF(creatorTitle, creatorContent).error)
    /\ UNCHANGED tasks

\* createPDF returned: newDoc is built and Storage.saveDocument(newDoc) is
\* awaited.
CreateStart ==
    /\ UserEvent
    /\ trim(creatorTitle) # <<>> /\ trim(creatorContent) # <<>>
    /\ createPDF(creatorTitle, creatorContent).ok
    /\ \E id \in FreshIds, now \in Nows :
          /\ usedIds' = usedIds \cup {id}
          /\ clock' = now
          /\ tasks' = tasks \cup
                {[n |-> nEvents + 1, op |-> "create", pc |-> "save",
                  doc |-> createdDoc(createPDF(creatorTitle, creatorContent).buffer,
                                     creatorTitle, creatorCover, id, now)]}
    /\ UNCHANGED <<store, documents, viewMode, creatorForm, uploadForm,
                   isProcessing, coverReads, alerts, console, handles>>

\* The create button of the create view.
handleCreatePDF ==
    /\ viewMode = "create"
    /\ \/ CreateMissing
       \/ CreateFactoryFail
       \/ CreateStart

(***************************************************************************)
(* Storage.saveDocument, awaited by confirmUpload and handleCreatePDF.     *)
(***************************************************************************)
\* The put committed; the handler goes on to await loadDocuments(), which
\* awaits Storage.getDocuments().
SaveCommit(t) ==
    /\ t.pc = "save"
    /\ store' = StorePut(store, t.doc)
    /\ tasks' = (tasks \ {t}) \cup {[n |-> t.n, op |-> t.op, pc |-> "list"]}
    /\ UNCHANGED <<documents, viewMode, creatorForm, uploadForm, isProcessing,
                   coverReads, nEvents, platform, alerts, console, handles>>

\* The put failed; the handler's catch block runs.
SaveFail(t, e) ==
    /\ t.pc = "save"
    /\ tasks' = tasks \ {t}
    /\ IF t.op = "upload"
       THEN uploadFailed
       ELSE createFailed(e) /\ UNCHANGED nEvents

(***************************************************************************)
(* deleteDoc.                                                              *)
(***************************************************************************)
documentIds == {documents[i].id : i \in 1..Len(documents)}

\* The delete button of a card, with confirm() answered yes (answered no,
\* the handler changes nothing): await Storage.deleteDocument(id).
DeleteDoc(id) ==
    /\ UserEvent
    /\ viewMode = "library"
    /\ id \in documentIds
    /\ tasks' = tasks \cup {[n |-> nEvents + 1, op |-> "delete", pc |-> "delete",
                             id |-> id]}
    /\ UNCHANGED <<store, documents, viewMode, creatorForm, uploadForm,
                   isProcessing, coverReads, platform, alerts, console,
                   handles>>

\* The delete committed; deleteDoc calls loadDocuments() without awaiting it.
DeleteCommit(t) ==
    /\ t.pc = "delete"
    /\ store' = StoreDelete(store, t.id)
    /\ tasks' = (tasks \ {t}) \cup {[n |-> t.n, op |-> t.op, pc |-> "list"]}
    /\ UNCHANGED <<documents, viewMode, creatorForm, uploadForm, isProcessing,
                   coverReads, nEvents, platform, alerts, console, handles>>

\* The delete failed: the rejection is handled nowhere, and deleteDoc ends
\* without a reload and without a word to the user.
DeleteFail(t) ==
    /\ t.pc = "delete"
    /\ tasks' = tasks \ {t}
    /\ UNCHANGED <<store, documents, viewMode, creatorForm, uploadForm,
                   isProcessing, coverReads, nEvents, platform, alerts, console,
                   handles>>

(***************************************************************************)
(* openDoc.                                                                *)
(***************************************************************************)
\* URL.createObjectURL(blob): a URL that names no earlier blob.
newObjectUrl == nEvents + 1

\* The object URLs that can exist within the budget of gestures.
ObjectUrls == 1..MaxEvents

\* An openDoc that returns after the alert when the window was blocked, so
\* that no timer is set on that path.
openDocReturnsWhenBlocked(doc, opened) ==
    /\ UserEvent
    /\ ~showUploadModal /\ viewMode = "library"
    /\ doc \in {documents[i] : i \in 1..Len(documents)}
    /\ blobUrls' = blobUrls \cup {newObjectUrl}
    /\ timers' = IF opened THEN timers \cup {newObjectUrl} ELSE timers
    /\ alerts' = IF opened THEN alerts ELSE Append(alerts, MsgPopupBlocked)
    /\ UNCHANGED <<store, documents, viewMode, creatorForm, uploadForm,
                   isProcessing, tasks, coverReads, platform, console>>

\* A click on a card: the blob of doc.data gets an object URL, window.open
\* shows it (opened) or is blocked by the browser, which the user is told;
\* on both paths a timer is set that will revoke the URL.
openDoc(doc, opened) ==
    /\ UserEvent
    /\ ~showUploadModal /\ viewMode = "library"
    /\ doc \in {documents[i] : i \in 1..Len(documents)}
    /\ blobUrls' = blobUrls \cup {newObjectUrl}
    /\ timers' = timers \cup {newObjectUrl}
    /\ alerts' = IF opened THEN alerts ELSE Append(alerts, MsgPopupBlocked)
    /\ UNCHANGED <<store, documents, viewMode, creatorForm, uploadForm,
                   isProcessing, tasks, coverReads, platform, console>>

\* The timer of openDoc fires: URL.revokeObjectURL(url).
RevokeTimer(url) ==
    /\ url \in timers
    /\ timers' = timers \ {url}
    /\ blobUrls' = blobUrls \ {url}
    /\ UNCHANGED <<store, documents, viewMode, creatorForm, uploadForm,
                   isProcessing, tasks, coverReads, nEvents, platform, alerts,
                   console>>

(***************************************************************************)
(* loadDocuments.                                                          *)
(***************************************************************************)
\* Storage.getDocuments() reads the collection; its result is delivered later.
GetDocuments(t) ==
    /\ t.pc = "list"
    /\ tasks' = (tasks \ {t}) \cup
          {[n |-> t.n, op |-> t.op, pc |-> "listed", docs |-> StoreList(store)]}
    /\ UNCHANGED <<store, documents, viewMode, creatorForm, uploadForm,
                   isProcessing, coverReads, nEvents, platform, alerts,
                   console, handles>>

\* The handlers that await loadDocuments() and go on after it.
AwaitsLoad == {"upload", "create"}

\* loadDocuments returns: a handler that awaits it resumes in a later turn,
\* the mount effect and deleteDoc wait for nothing.
loadReturns(t) ==
    tasks' = IF t.op \in AwaitsLoad
             THEN (tasks \ {t}) \cup {[n |-> t.n, op |-> t.op, pc |-> "loaded"]}
             ELSE tasks \ {t}

\* (A loadDocuments that drops the result and leaves the view as it was.)
LoadResolveKeepsView(t) ==
    /\ t.pc = "listed"
    /\ loadReturns(t)
    /\ UNCHANGED <<store, documents, viewMode, creatorForm, uploadForm,
                   isProcessing, coverReads, nEvents, platform, alerts, console,
                   handles>>

\* The result of getDocuments() arrives: setDocuments(docs.sort(...)).
LoadResolve(t) ==
    /\ t.pc = "listed"
    /\ documents' = sortByAddedAtDesc(t.docs)
    /\ loadReturns(t)
    /\ UNCHANGED <<store, viewMode, creatorForm, uploadForm, isProcessing,
                   coverReads, nEvents, platform, alerts, console, handles>>

\* getDocuments() failed: loadDocuments logs the error and returns.
LoadFail(t) ==
    /\ t.pc = "list"
    /\ console' = Append(console, MsgLoadError)
    /\ loadReturns(t)
    /\ UNCHANGED <<store, documents, viewMode, creatorForm, uploadForm,
                   isProcessing, coverReads, nEvents, platform, alerts,
                   handles>>

\* What the caller of loadDocuments does once it returns.
afterLoad(op) ==
    CASE op = "upload" ->
            /\ resetUploadForm
            /\ isProcessing' = FALSE
            /\ UNCHANGED <<viewMode, creatorForm, alerts>>
      [] op = "create" ->
            /\ creatorTitle' = <<>>
            /\ creatorContent' = <<>>
            /\ creatorCover' = Undefined
            /\ viewMode' = "library"
            /\ alerts' = Append(alerts, MsgCreateOk)
            /\ UNCHANGED <<uploadForm, isProcessing>>

\* confirmUpload or handleCreatePDF resumes after `await loadDocuments()`.
LoadAwaited(t) ==
    /\ t.pc = "loaded"
    /\ tasks' = tasks \ {t}
    /\ afterLoad(t.op)
    /\ UNCHANGED <<store, documents, coverReads, nEvents, platform, console,
                   handles>>

(***************************************************************************)
(* The specification.                                                      *)
(***************************************************************************)
Next ==
    \/ OpenUploadModal
    \/ CloseUploadModal
    \/ \E m \in {"library", "create"} : SetViewMode(m)
    \/ \E v \in TitleInputs : SetCreatorTitle(v)
    \/ \E v \in ContentInputs : SetCreatorContent(v)
    \/ \E f \in Files : handleFileSelect(f)
    \/ \E v \in UploadNameInputs : SetUploadName(v)
    \/ \E c \in Covers : handleUploadCoverSelect(c)
    \/ \E c \in Covers : handleCreatorCoverSelect(c)
    \/ \E r \in coverReads : \E result \in ReadResults(r) : CoverLoaded(r, result)
    \/ ConfirmUploadNoFile
    \/ ConfirmUpload
    \/ handleCreatePDF
    \/ \E id \in UUIDs : DeleteDoc(id)
    \/ \E i \in 1..Len(documents), opened \in BOOLEAN :
          openDoc(documents[i], opened)
    \/ \E url \in timers : RevokeTimer(url)
    \/ \E t \in tasks : UploadRead(t)
    \/ \E t \in tasks : UploadReadFail(t)
    \/ \E t \in tasks : SaveCommit(t)
    \/ \E t \in tasks :
          \E e \in {StorageQuotaExceeded, StorageUnavailable} : SaveFail(t, e)
    \/ \E t \in tasks : DeleteCommit(t)
    \/ \E t \in tasks : DeleteFail(t)
    \/ \E t \in tasks : GetDocuments(t)
    \/ \E t \in tasks : LoadResolve(t)
    \/ \E t \in tasks : LoadFail(t)
    \/ \E t \in tasks : LoadAwaited(t)

Spec == Init /\ [][Next]_vars

\* A timer that was set fires: the event loop runs every due timer.
TimersFire == \A url \in ObjectUrls : WF_vars(RevokeTimer(url))

\* A step of the upload in flight: the promise confirmUpload awaits settles.
UploadStep(t) ==
    /\ t.op = "upload"
    /\ \/ UploadRead(t)
       \/ UploadReadFail(t)
       \/ SaveCommit(t)
       \/ \E e \in {StorageQuotaExceeded, StorageUnavailable} : SaveFail(t, e)
       \/ GetDocuments(t)
       \/ LoadResolve(t)
       \/ LoadFail(t)
       \/ LoadAwaited(t)

\* Every promise confirmUpload awaits settles: the file read and the storage
\* calls complete, with a result or with a failure.
UploadProceeds == WF_vars(\E t \in tasks : UploadStep(t))

\* The program where what is pending happens: the timers fire and the awaited
\* calls complete.
FairSpec == Spec /\ TimersFire /\ UploadProceeds

(***************************************************************************)
(* The store under independent callers of put(document).                   *)
(***************************************************************************)
\* How many callers have a put in flight.
MaxCallers == 2

\* The ids the callers write to: 2 is a record of two of the initial stores,
\* 3 is the corrupt entry of one of them.
PutIds == {2, 3}

\* The documents the callers put.
PutDocs ==
    { uploadDoc(f, f.bytes, <<>>, c, id, 3) :
        f \in Files, c \in Covers \cup {Undefined}, id \in PutIds }

\* The page is idle and every caller has issued its put.
PutInit ==
    /\ store \in InitialStores
    /\ documents = <<>>
    /\ viewMode = "library"
    /\ creatorTitle = <<>> /\ creatorContent = <<>> /\ creatorCover = Undefined
    /\ showUploadModal = FALSE
    /\ uploadFile = NoFile /\ uploadCover = Undefined /\ uploadName = <<>>
    /\ isProcessing = FALSE
    /\ \E doc \in [1..MaxCallers -> PutDocs] :
          tasks = {[n |-> i, op |-> "put", pc |-> "save", doc |-> doc[i],
                    seq |-> 0] : i \in 1..MaxCallers}
    /\ coverReads = {}
    /\ nEvents = 0
    /\ usedIds = StoreKeys(store)
    /\ clock = InitialClock(store)
    /\ alerts = <<>>
    /\ console = <<>>
    /\ blobUrls = {}
    /\ timers = {}

\* The puts that have committed.
Committed == {t \in tasks : t.pc = "done"}

\* A put commits, after the puts that committed before it.
PutCommit(t) ==
    /\ t.pc = "save"
    /\ store' = StorePut(store, t.doc)
    /\ tasks' = (tasks \ {t}) \cup
                  {[t EXCEPT !.pc = "done", !.seq = Cardinality(Committed) + 1]}
    /\ UNCHANGED <<documents, viewMode, creatorForm, uploadForm, isProcessing,
                   coverReads, nEvents, platform, alerts, console, handles>>

\* A put fails and leaves the store as it was.
PutFail(t, e) ==
    /\ t.pc = "save"
    /\ tasks' = (tasks \ {t}) \cup {[t EXCEPT !.pc = e]}
    /\ UNCHANGED <<store, documents, viewMode, creatorForm, uploadForm,
                   isProcessing, coverReads, nEvents, platform, alerts, console,
                   handles>>

PutNext ==
    \/ \E t \in tasks : PutCommit(t)
    \/ \E t \in tasks :
          \E e \in {StorageQuotaExceeded, StorageUnavailable} : PutFail(t, e)

PutSpec == PutInit /\ [][PutNext]_vars

(***************************************************************************)
(* Helpers of the properties.                                              *)
(***************************************************************************)
Range(q) == {q[i] : i \in 1..Len(q)}

\* The records of the store that decode: what list() returns, as a set.
Records(s) == {e \in s : WellFormed(e)}

\* No invocation of confirmUpload, handleCreatePDF, deleteDoc or
\* loadDocuments is in flight.
Quiescent == tasks = {}

\* The task of invocation t.n has ended in this step.
Ended(t) == t \in tasks /\ \A u \in tasks' : u.n # t.n

\* The task of invocation t.n moves to position pc in this step.
MovesTo(t, pc) == t \in tasks /\ \E u \in tasks' : u.n = t.n /\ u.pc = pc

(***************************************************************************)
(* C1. Whenever no controller operation is in flight, the cached documents *)
(* list holds exactly the records of the store.  Stated here for the runs  *)
(* in which nothing was logged (no put and no list() has failed), so that  *)
(* only the interleaving of uploads, creates, deletes and loads is in      *)
(* question.                                                               *)
(* The code does not keep it: loadDocuments shows whichever result of      *)
(* getDocuments() arrives last, also one read before a later mutation.     *)
(***************************************************************************)
C1_CacheMirrorsStore ==
    (Quiescent /\ console = <<>>) =>
        /\ Range(documents) = Records(store)
        /\ Len(documents) = Cardinality(Records(store))

(***************************************************************************)
(* C2. A successful put(D) followed by get(D.id) returns a record equal to *)
(* D in data and in every metadata field: in the step in which the         *)
(* saveDocument(newDoc) of confirmUpload or handleCreatePDF commits, a get *)
(* of newDoc.id on the resulting store returns newDoc itself.              *)
(***************************************************************************)
PutThenGet ==
    \A t \in tasks :
        (t.pc = "save" /\ MovesTo(t, "list")) =>
            /\ StoreHas(store', t.doc.id)
            /\ StoreGet(store', t.doc.id) = t.doc

UniqueIds(S) == \A a, b \in S : a.id = b.id => a = b

NoDuplicateIds ==
    /\ UniqueIds(store)
    /\ UniqueIds(Range(documents)) /\ Cardinality(Range(documents)) = Len(documents)
    /\ \A t \in tasks :
          t.pc = "listed" =>
              UniqueIds(Range(t.docs)) /\ Cardinality(Range(t.docs)) = Len(t.docs)

IdsGivenOnce ==
    /\ \A d \in store' : d.id \in StoreKeys(store) => d \in store
    /\ \A t \in tasks' :
          (t.pc = "save" /\ t \notin tasks) =>
              /\ t.doc.id \notin usedIds
              /\ t.doc.id \notin StoreKeys(store)

C3_UniqueIds == []NoDuplicateIds /\ [][IdsGivenOnce]_vars

\* A record created in this session sits in the store beside older ones.
C3_Witness ==
    /\ Cardinality(Records(store)) = 3
    /\ Cardinality(StoreKeys(store)) >= 3
    /\ \E d \in store : d.id \notin {2, 3, 4}

(***************************************************************************)
(* C4. For every record list() returns, size is the byte length of data.   *)
(***************************************************************************)
SizeMatches(d) == d.size = byteLength(d.data)

C4_SizeIsByteLength ==
    /\ \A d \in Range(StoreList(store)) : SizeMatches(d)
    /\ \A t \in tasks : t.pc = "listed" => \A d \in Range(t.docs) : SizeMatches(d)
    /\ \A d \in Range(documents) : SizeMatches(d)

\* A generated document is shown with the size of its buffer: the signature,
\* the title and the body.
C4_Witness ==
    \E d \in Range(documents) :
        /\ d.description = "Gerado internamente"
        /\ d.size = 6
        /\ byteLength(d.data) = 6

(***************************************************************************)
(* C5. The cached view is ordered by addedAt, most recent first, whatever  *)
(* the order in which list() returned the records.                         *)
(***************************************************************************)
C5_ViewByRecency ==
    \A i, j \in 1..Len(documents) :
        i < j => documents[i].addedAt >= documents[j].addedAt

\* Three documents added at t1 < t2 < t3 are shown as t3, t2, t1, and that is
\* not the order of list().
C5_Witness ==
    /\ Len(documents) = 3
    /\ documents[1].addedAt = 3 /\ documents[2].addedAt = 2 /\ documents[3].addedAt = 1
    /\ <<documents[1], documents[2], documents[3]>> # StoreList(store)
    /\ Range(documents) = Records(store)

(***************************************************************************)
(* C6. delete(id) always succeeds without error and leaves id absent,      *)
(* whether or not id was present: in the step in which the                 *)
(* deleteDocument(id) of deleteDoc completes, it completes by success, id  *)
(* is absent from the store and a get(id) returns NotFound; if id was      *)
(* absent before, the store is as it was; and a second delete(id) would    *)
(* change nothing.  The program does not keep it: a delete can fail as     *)
(* every call of the engine can (spec 5), and deleteDoc, which has no      *)
(* try/catch, then ends with id still in the store and the user not told.  *)
(***************************************************************************)
DeletedAndAbsent(t) ==
    /\ MovesTo(t, "list")
    /\ t.id \notin StoreKeys(store')
    /\ StoreGet(store', t.id) = NotFound
    /\ t.id \notin StoreKeys(store) => store' = store
    /\ StoreDelete(store', t.id) = store'

DeleteLeavesAbsent ==
    \A t \in tasks : (t.pc = "delete" /\ t \notin tasks') => DeletedAndAbsent(t)

C6_IdempotentDelete == [][DeleteLeavesAbsent]_vars

(***************************************************************************)
(* C7. Every record the controller persists has the MIME type              *)
(* application/pdf.  The code does not keep it for uploads: confirmUpload   *)
(* stores the type the file reports.                                       *)
(***************************************************************************)
C7_MimeIsPdf == \A d \in Records(store) : d.type = PdfMime

(***************************************************************************)
(* C8. When the put of an upload or a create fails, the store and the      *)
(* cached list are as they were, the failure is shown to the user by that  *)
(* handler, and the handler issues no further store call: no retry.        *)
(***************************************************************************)
PutFailureHandled ==
    \A t \in tasks :
        (t.pc = "save" /\ Ended(t)) =>
            /\ store' = store
            /\ documents' = documents
            /\ alerts' = Append(alerts, IF t.op = "upload" THEN MsgUploadError
                                                           ELSE MsgCreateError)
            /\ tasks' = tasks \ {t}

C8_FailedPutLeavesNoTrace == [][PutFailureHandled]_vars

\* The put of a generated document failed: the storage error was logged, the
\* error alert was the last one shown, the form still holds the text.
C8_Witness ==
    /\ console # <<>>
    /\ console[Len(console)] \in {StorageQuotaExceeded, StorageUnavailable}
    /\ alerts # <<>>
    /\ alerts[Len(alerts)] = MsgCreateError
    /\ creatorTitle # <<>>
    /\ Quiescent

(***************************************************************************)
(* C9. When createPDF fails with UnsupportedContent in handleCreatePDF, no *)
(* put is issued, the store is unchanged, the error is shown to the user,  *)
(* and the creator form and the create view are left as they were.         *)
(***************************************************************************)
FactoryFailureHandled ==
    (console' = Append(console, UnsupportedContent)) =>
        /\ store' = store
        /\ tasks' = tasks
        /\ alerts' = Append(alerts, MsgCreateError)
        /\ creatorForm' = creatorForm
        /\ viewMode = "create" /\ viewMode' = "create"

C9_FactoryFailureSavesNothing == [][FactoryFailureHandled]_vars

\* The factory has refused a body with an unsupported character.
C9_Witness ==
    /\ console = <<UnsupportedContent>>
    /\ alerts = <<MsgCreateError>>
    /\ hasUnsupported(creatorContent)
    /\ creatorTitle = <<"T">>
    /\ viewMode = "create"
    /\ \A t \in tasks : t.op # "create"

(***************************************************************************)
(* C10. With a corrupt entry among N valid ones, list() returns exactly    *)
(* the N valid records, and the load that receives them puts exactly those *)
(* N records in the cached view.                                           *)
(***************************************************************************)
HasCorruptEntry(s) == \E e \in s : ~WellFormed(e)

CorruptEntrySkipped ==
    /\ \A u \in tasks' :
          (u.pc = "listed" /\ u \notin tasks /\ HasCorruptEntry(store)) =>
              /\ Range(u.docs) = Records(store)
              /\ Len(u.docs) = Cardinality(Records(store))
    /\ \A t \in tasks :
          (t.pc = "listed" /\ t \notin tasks') =>
              /\ Range(documents') = Range(t.docs)
              /\ Len(documents') = Len(t.docs)

C10_CorruptEntryIsolated == [][CorruptEntrySkipped]_vars

\* The store holds a corrupt entry and two valid records, and the view shows
\* the two.
C10_Witness ==
    /\ HasCorruptEntry(store)
    /\ Cardinality(store) = 3
    /\ Len(documents) = 2
    /\ Range(documents) = Records(store)

(***************************************************************************)
(* C11. Every object URL created by openDoc is eventually revoked, also    *)
(* when the window was blocked; a URL is revoked only while it is          *)
(* allocated, so never before it was created and never a second time; no   *)
(* URL stays allocated forever.                                            *)
(***************************************************************************)
\* Every allocated URL has its revoke pending, and every pending revoke is of
\* an allocated URL.
RevokePending == timers = blobUrls

\* URLs name no earlier blob: the next URL was never allocated before.
UrlsAreFresh == \A url \in blobUrls \cup timers : url < newObjectUrl

\* A step allocates at most the next URL, and a URL that stops being
\* allocated was allocated with its timer pending, whose firing is consumed.
RevokedOnce ==
    /\ blobUrls' \ blobUrls \subseteq {newObjectUrl}
    /\ \A url \in blobUrls \ blobUrls' : url \in timers /\ url \notin timers'
    /\ \A url \in timers \ timers' : url \in blobUrls /\ url \notin blobUrls'

EventuallyRevoked ==
    \A url \in ObjectUrls : (url \in blobUrls) ~> (url \notin blobUrls)

C11_HandlesReleased ==
    /\ [](RevokePending /\ UrlsAreFresh)
    /\ [][RevokedOnce]_vars
    /\ EventuallyRevoked

\* A document was opened with the window blocked, and no URL is allocated
\* any more.
C11_Witness ==
    /\ MsgPopupBlocked \in Range(alerts)
    /\ blobUrls = {}
    /\ timers = {}

(***************************************************************************)
(* C12. put(document) inserts the record or replaces the whole record of   *)
(* the same id and leaves every other entry alone; after any interleaving  *)
(* of puts to one id the store holds exactly one record of that id, equal  *)
(* in every field to the document of the put that committed last.         *)
(***************************************************************************)
\* The put to id that committed last.
LastCommitted(id) ==
    CHOOSE t \in Committed :
        /\ t.doc.id = id
        /\ \A u \in Committed : u.doc.id = id => u.seq <= t.seq

LastWriteWins ==
    \A id \in {t.doc.id : t \in Committed} :
        /\ Cardinality({e \in store : e.id = id}) = 1
        /\ \A e \in store : e.id = id => e = LastCommitted(id).doc

PutReplacesWhole ==
    \A t \in tasks :
        (t.pc = "save" /\ \E u \in tasks' : u.n = t.n /\ u.pc = "done") =>
            /\ t.doc \in store'
            /\ \A e \in store' : e.id = t.doc.id => e = t.doc
            /\ {e \in store' : e.id # t.doc.id} =
                   {e \in store : e.id # t.doc.id}

UploadsInFlight == {t \in tasks : t.op = "upload"}

\* isProcessing is true exactly while an upload is in flight, and one is at
\* most.
ProcessingWhileUploading ==
    /\ isProcessing <=> UploadsInFlight # {}
    /\ Cardinality(UploadsInFlight) <= 1

UploadFormIsReset ==
    /\ uploadFile' = NoFile /\ uploadCover' = Undefined /\ uploadName' = <<>>
    /\ showUploadModal' = FALSE

UploadLifecycle ==
    \* an upload starts only from a selected file, and raises isProcessing
    /\ \A t \in tasks' :
          (t.op = "upload" /\ t.pc = "read" /\ t \notin tasks) =>
              /\ uploadFile # NoFile /\ t.file = uploadFile
              /\ ~isProcessing /\ isProcessing'
              /\ uploadForm' = uploadForm
    /\ uploadFile = NoFile => (isProcessing' => isProcessing)
    \* a failed read or a failed save
    /\ \A t \in UploadsInFlight :
          (t.pc \in {"read", "save"} /\ Ended(t)) =>
              /\ ~isProcessing'
              /\ uploadForm' = uploadForm
              /\ alerts' = Append(alerts, MsgUploadError)
    \* the reload after the save returned, with the records or with a failure,
    \* and confirmUpload resumes
    /\ \A t \in UploadsInFlight :
          (t.pc = "loaded" /\ Ended(t)) =>
              /\ ~isProcessing'
              /\ UploadFormIsReset
    \* no other step of a handler in flight takes the file, the name or the
    \* modal away
    /\ ( /\ nEvents' = nEvents
         /\ <<uploadFile, uploadName, showUploadModal>>' #
               <<uploadFile, uploadName, showUploadModal>> ) =>
          \E t \in UploadsInFlight : t.pc = "loaded" /\ Ended(t)

C13_UploadLifecycle ==
    /\ []ProcessingWhileUploading
    /\ [][UploadLifecycle]_vars
    /\ isProcessing ~> ~isProcessing

\* A save failed and the user, with the file still in the form, confirmed
\* again; that upload was saved and the form is reset.
C13_Witness ==
    /\ MsgUploadError \in Range(alerts)
    /\ \E d \in Records(store) : d.addedAt > InitialClock(store \ {d})
    /\ uploadFile = NoFile /\ uploadName = <<>> /\ ~showUploadModal
    /\ ~isProcessing
    /\ Quiescent
    /\ nEvents = 4

=============================================================================
